---- MODULE Spec2Model ----
(***************************************************************************)
(* Model of src/app.py: a Flask view (index) in front of a module-level    *)
(* crew of three tasks, whose last report and its timestamp are kept in    *)
(* two module-level globals (last_result, last_updated).                   *)
(*                                                                         *)
(* Every HTTP request is served by a thread of its own (app.run starts     *)
(* the threaded development server), so a request is a process here and    *)
(* one action is one stretch of its code between two accesses to shared    *)
(* state: the globals and the module-level Task objects.                   *)
(*                                                                         *)
(* The text a task produces is chosen by the language model.  The code     *)
(* never inspects it, so the text of task t in the run of request r is     *)
(* the symbolic value <<r, t>>; likewise the timestamp the run of r reads  *)
(* from the clock is the symbolic value <<r>>.  The locals of a request    *)
(* are dropped when its thread ends.                                       *)
(***************************************************************************)
EXTENDS Naturals, Sequences, FiniteSets

\* Number of requests the server receives (each runs in its own thread).
MaxRequests == 2
Requests == 1..MaxRequests

\* Python's None, for the values that are texts or timestamps.
None == <<>>

VARIABLES
    pc,            \* pc[r]: where the thread of request r is
    method,        \* request.method of r
    refresh,       \* 'refresh' in request.form of r
    last_result,   \* global last_result (app.py:98)
    last_updated,  \* global last_updated (app.py:99)
    output,        \* output[t]: Task.output of the module-level task t
    executed,      \* executed[r]: tasks the run of r has executed, in order
    failed,        \* failed[r]: the task that raised in the run of r
    result_str,    \* local result_str of index() for r
    response,      \* response[r]: the page r was answered with
    wrote          \* history: r assigned last_result or last_updated

vars == <<pc, method, refresh, last_result, last_updated, output, executed,
          failed, result_str, response, wrote>>

(***************************************************************************)
(* The crew (app.py:65-91)                                                 *)
(***************************************************************************)
TasksReordered == <<"stock_selection_task", "market_research_task",
                    "investment_report_task">>

\* Crew(tasks=[...]) at app.py:88
tasks == <<"market_research_task", "stock_selection_task",
           "investment_report_task">>

TaskNames == {"market_research_task", "stock_selection_task",
              "investment_report_task"}

\* Task(context=[...]) at app.py:65-83
context(t) ==
    CASE t = "market_research_task"   -> <<>>
      [] t = "stock_selection_task"   -> <<"market_research_task">>
      [] t = "investment_report_task" -> <<"market_research_task",
                                           "stock_selection_task">>

Range(s) == {s[i] : i \in 1..Len(s)}

\* The text task t produces in the run of request r.
Text(r, t) == <<r, t>>

\* datetime.now().strftime("%Y-%m-%d %H:%M:%S") as read by the run of r.
Stamp(r) == <<r>>

\* The run that produced a text or a timestamp (0: none, the value is None).
RunOf(v) == IF v = None THEN 0 ELSE v[1]

\* Pages index() answers with.
ErrorPage == [kind |-> "error_page", text |-> None, last_updated |-> None]
Escaped == [kind |-> "exception", text |-> None, last_updated |-> None]
NoPage == [kind |-> "-", text |-> None, last_updated |-> None]
ReportPage(text, updated) ==
    [kind |-> "report", text |-> text, last_updated |-> updated]

Init ==
    /\ pc = [r \in Requests |-> "new"]
    /\ method = [r \in Requests |-> "-"]
    /\ refresh = [r \in Requests |-> FALSE]
    /\ last_result = None
    /\ last_updated = None
    /\ output = [t \in TaskNames |-> None]
    /\ executed = [r \in Requests |-> <<>>]
    /\ failed = [r \in Requests |-> "-"]
    /\ result_str = [r \in Requests |-> None]
    /\ response = [r \in Requests |-> NoPage]
    /\ wrote = [r \in Requests |-> FALSE]

(***************************************************************************)
(* index(), app.py:111-200                                                 *)
(***************************************************************************)
\* app.py:115: a request arrives and index() branches on it.
Index(r, m, f) ==
    /\ pc[r] = "new"
    /\ method' = [method EXCEPT ![r] = m]
    /\ refresh' = [refresh EXCEPT ![r] = f]
    /\ pc' = [pc EXCEPT ![r] = IF m = "POST" /\ f THEN "gen_enter"
                                               ELSE "check_cache"]
    /\ UNCHANGED <<last_result, last_updated, output, executed, failed,
                   result_str, response, wrote>>

\* app.py:137-141: the else branch reads the cache.
CheckCache(r) ==
    /\ pc[r] = "check_cache"
    /\ IF last_result = None
       THEN /\ pc' = [pc EXCEPT ![r] = "gen_enter"]
            /\ UNCHANGED result_str
       ELSE /\ pc' = [pc EXCEPT ![r] = "convert"]
            /\ result_str' = [result_str EXCEPT ![r] = last_result]
    /\ UNCHANGED <<method, refresh, last_result, last_updated, output,
                   executed, failed, response, wrote>>

(***************************************************************************)
(* generate_recommendations(), app.py:101-109                              *)
(***************************************************************************)
\* app.py:104: investment_crew.kickoff() is entered.
Kickoff(r) ==
    /\ pc[r] = "gen_enter"
    /\ pc' = [pc EXCEPT ![r] = "kickoff"]
    /\ UNCHANGED <<method, refresh, last_result, last_updated, output,
                   executed, failed, result_str, response, wrote>>

\* The next task of the run of r, in the order of the crew's task list.
NextTask(r) == tasks[Len(executed[r]) + 1]

\* Process.sequential: the next task runs and its text is recorded on the
\* module-level Task object; after the last one kickoff() returns.
ExecuteTask(r) ==
    /\ pc[r] = "kickoff"
    /\ Len(executed[r]) < Len(tasks)
    /\ output' = [output EXCEPT ![NextTask(r)] = Text(r, NextTask(r))]
    /\ executed' = [executed EXCEPT ![r] = Append(@, NextTask(r))]
    /\ pc' = [pc EXCEPT ![r] = IF Len(executed[r]) + 1 = Len(tasks)
                               THEN "store_result" ELSE "kickoff"]
    /\ UNCHANGED <<method, refresh, last_result, last_updated, failed,
                   result_str, response, wrote>>

\* The next task raises (tool, model or agent error): kickoff() raises.
TaskRaises(r) ==
    /\ pc[r] = "kickoff"
    /\ Len(executed[r]) < Len(tasks)
    /\ failed' = [failed EXCEPT ![r] = NextTask(r)]
    /\ pc' = [pc EXCEPT ![r] = "gen_except"]
    /\ UNCHANGED <<method, refresh, last_result, last_updated, output,
                   executed, result_str, response, wrote>>

\* app.py:105: last_result = str(result), the text of the run's last task.
StoreResult(r) ==
    /\ pc[r] = "store_result"
    /\ last_result' = Text(r, executed[r][Len(executed[r])])
    /\ wrote' = [wrote EXCEPT ![r] = TRUE]
    /\ pc' = [pc EXCEPT ![r] = "store_updated"]
    /\ UNCHANGED <<method, refresh, last_updated, output, executed, failed,
                   result_str, response>>

\* app.py:106: last_updated = datetime.now().strftime(...)
StoreUpdated(r) ==
    /\ pc[r] = "store_updated"
    /\ last_updated' = Stamp(r)
    /\ wrote' = [wrote EXCEPT ![r] = TRUE]
    /\ pc' = [pc EXCEPT ![r] = "gen_return"]
    /\ UNCHANGED <<method, refresh, last_result, output, executed, failed,
                   result_str, response>>

\* app.py:107: return last_result (the global is read again), assigned to
\* result_str at app.py:117 or app.py:139.
GenReturn(r) ==
    /\ pc[r] = "gen_return"
    /\ result_str' = [result_str EXCEPT ![r] = last_result]
    /\ pc' = [pc EXCEPT ![r] = "convert"]
    /\ UNCHANGED <<method, refresh, last_result, last_updated, output,
                   executed, failed, response, wrote>>

\* A handler that swallows the error and serves what the cache holds.
GenExceptSwallow(r) ==
    /\ pc[r] = "gen_except"
    /\ result_str' = [result_str EXCEPT ![r] = last_result]
    /\ pc' = [pc EXCEPT ![r] = "convert"]
    /\ UNCHANGED <<method, refresh, last_result, last_updated, output,
                   executed, failed, response, wrote>>

\* A handler that clears the cache before it re-raises.
GenExceptClear(r) ==
    /\ pc[r] = "gen_except"
    /\ last_result' = None
    /\ last_updated' = None
    /\ wrote' = [wrote EXCEPT ![r] = TRUE]
    /\ pc' = [pc EXCEPT ![r] = "index_except"]
    /\ UNCHANGED <<method, refresh, output, executed, failed, result_str,
                   response>>

\* app.py:108-109: except Exception as e: raise e
GenExcept(r) ==
    /\ pc[r] = "gen_except"
    /\ pc' = [pc EXCEPT ![r] = "index_except"]
    /\ UNCHANGED <<method, refresh, last_result, last_updated, output,
                   executed, failed, result_str, response, wrote>>

(***************************************************************************)
(* index(), continued                                                      *)
(***************************************************************************)
\* The thread of r ends with page p: its locals are gone.
Respond(r, p) ==
    /\ response' = [response EXCEPT ![r] = p]
    /\ pc' = [pc EXCEPT ![r] = "done"]
    /\ method' = [method EXCEPT ![r] = "-"]
    /\ refresh' = [refresh EXCEPT ![r] = FALSE]
    /\ executed' = [executed EXCEPT ![r] = <<>>]
    /\ failed' = [failed EXCEPT ![r] = "-"]
    /\ result_str' = [result_str EXCEPT ![r] = None]

\* app.py:116-136: the call at app.py:117 is inside try/except and answers
\* with the error page; the call at app.py:139 is not, and the exception
\* leaves index().
IndexExcept(r) ==
    /\ pc[r] = "index_except"
    /\ Respond(r, IF method[r] = "POST" /\ refresh[r] THEN ErrorPage
                                                       ELSE Escaped)
    /\ UNCHANGED <<last_result, last_updated, output, wrote>>

\* app.py:143-200: the report is converted and rendered with the global
\* last_updated as it is now.
Render(r) ==
    /\ pc[r] = "convert"
    /\ Respond(r, ReportPage(result_str[r], last_updated))
    /\ UNCHANGED <<last_result, last_updated, output, wrote>>

Next ==
    \/ \E r \in Requests, m \in {"GET", "POST"}, f \in BOOLEAN : Index(r, m, f)
    \/ \E r \in Requests : CheckCache(r)
    \/ \E r \in Requests : Kickoff(r)
    \/ \E r \in Requests : ExecuteTask(r)
    \/ \E r \in Requests : TaskRaises(r)
    \/ \E r \in Requests : StoreResult(r)
    \/ \E r \in Requests : StoreUpdated(r)
    \/ \E r \in Requests : GenReturn(r)
    \/ \E r \in Requests : GenExcept(r)
    \/ \E r \in Requests : IndexExcept(r)
    \/ \E r \in Requests : Render(r)

Spec == Init /\ [][Next]_vars

(***************************************************************************)
(* Properties                                                              *)
(***************************************************************************)
\* The run of r is between starting the pipeline and finishing its cache
\* write.
InFlight(r) == pc[r] \in {"kickoff", "store_result", "store_updated"}

\* r is a POST carrying the refresh action.
IsPostRefresh(r) == method[r] = "POST" /\ refresh[r]

\* The refresh of r has failed: its run raised, or it was answered so.
RefreshFailed(r) ==
    \/ failed[r] # "-"
    \/ response[r].kind \in {"error_page", "exception"}

\* The order the tasks are declared in, as the claims name it.
DeclarationOrder == <<"market_research_task", "stock_selection_task",
                      "investment_report_task">>

IsPrefix(s, t) ==
    /\ Len(s) <= Len(t)
    /\ \A i \in 1..Len(s) : s[i] = t[i]

\* The tasks declared before t.
Before(t) ==
    {DeclarationOrder[j] : j \in {i \in 1..Len(DeclarationOrder) :
        \E k \in (i + 1)..Len(DeclarationOrder) : DeclarationOrder[k] = t}}

\* C1: at most one pipeline execution is in flight at any time, whatever
\* requests are handled concurrently.
C1_OnePipelineInFlight ==
    Cardinality({r \in Requests : InFlight(r)}) <= 1

\* A request whose refresh failed has assigned neither global.
C2_FailedRunNeverWrote ==
    \A r \in Requests : RefreshFailed(r) => ~wrote[r]

\* A step of a request whose run raises, or has raised, keeps both globals.
C2_FailedStepKeepsCache ==
    \A r \in Requests :
        (pc'[r] # pc[r] /\ (failed[r] # "-" \/ failed'[r] # "-"))
            => (last_result' = last_result /\ last_updated' = last_updated)

\* C2: a refresh whose pipeline run raises leaves the cache unchanged: the
\* failed request has assigned neither last_result nor last_updated, and no
\* step it takes from the failure on changes them, whether the cache is
\* empty or populated.
C2_FailedRunLeavesCacheUnchanged ==
    [](C2_FailedRunNeverWrote) /\ [][C2_FailedStepKeepsCache]_vars

\* C2 witness: a refresh has failed while the cache was populated.
C2_Witness ==
    \E r \in Requests :
        /\ response[r].kind \in {"error_page", "exception"}
        /\ last_result # None
        /\ last_updated # None

\* C3: a rendered report pairs a text and a timestamp written by the same
\* run (or both None).
C3_NoTornRead ==
    \A r \in Requests :
        response[r].kind = "report"
            => RunOf(response[r].text) = RunOf(response[r].last_updated)

\* C4: within one run the tasks execute once each in declaration order, and
\* every task in a task's context has executed, and so has an output, before
\* the task starts.
C4_DeclarationOrder ==
    \A r \in Requests :
        /\ IsPrefix(executed[r], DeclarationOrder)
        /\ \A i \in 1..Len(executed[r]) :
              /\ output[executed[r][i]] # None
              /\ \A d \in Range(context(executed[r][i])) :
                    \E j \in 1..(i - 1) : executed[r][j] = d
        /\ pc[r] \in {"store_result", "store_updated", "gen_return"}
              => executed[r] = DeclarationOrder

\* C4 witness: a run has executed all three tasks.
C4_Witness ==
    \E r \in Requests :
        pc[r] = "store_result" /\ Len(executed[r]) = 3

\* C6: once a task has failed, the run has executed exactly the tasks
\* declared before it and executes no other, no result is stored or handed
\* to index(), and the exception is on its way to, or in, the caller.
C6_FailFast ==
    \A r \in Requests :
        failed[r] # "-" =>
            /\ Range(executed[r]) = Before(failed[r])
            /\ ~wrote[r]
            /\ result_str[r] = None
            /\ pc[r] \in {"gen_except", "index_except"}

\* C6 witness: the second task failed and the exception reached index().
C6_Witness ==
    \E r \in Requests :
        /\ failed[r] = "stock_selection_task"
        /\ pc[r] = "index_except"
        /\ executed[r] = <<"market_research_task">>

\* C7: once a successful run is in the cache, the pipeline is started only
\* for POST requests carrying the refresh action.
C7_RunsOnlyForPostRefresh ==
    [][\A r \in Requests :
          (pc[r] = "gen_enter" /\ pc'[r] = "kickoff" /\ last_result # None)
              => IsPostRefresh(r)]_vars

\* The rule of app.py:115-141 at the moment index() branches: a request that
\* is not a POST refresh goes on to the pipeline exactly when it reads the
\* cache as empty.
DispatchRule ==
    [][\A r \in Requests :
          /\ (pc[r] = "new" /\ pc'[r] # "new")
                => (pc'[r] = "gen_enter" <=> (method'[r] = "POST" /\ refresh'[r]))
          /\ (pc[r] = "check_cache" /\ pc'[r] # "check_cache")
                => (pc'[r] = "gen_enter" <=> last_result = None)]_vars

\* C8: every failed refresh is answered with the error page, whichever
\* request triggered it.
C8_FailureAnsweredWithErrorPage ==
    [][\A r \in Requests :
          (failed[r] # "-" /\ pc'[r] = "done") => response'[r] = ErrorPage]_vars

\* C10: a task's output, once set, is never set to anything else.
C10_OutputWriteOnce ==
    [][\A t \in TaskNames : output[t] # None => output'[t] = output[t]]_vars

====
